---- MODULE Spec2Model ----
(***************************************************************************)
(* Model of src/node/index.js: the benchmark runner runBenchmarks, the     *)
(* asynchronous workload testAsyncOperations and the top-level entry       *)
(* point runBenchmarks().catch(console.error).                             *)
(*                                                                         *)
(* Durations are the values of performance.now() - start.  They are kept   *)
(* in thousandths of a millisecond, so that toFixed(2) really rounds.      *)
(* A decimal string produced by toFixed(2) is kept as its number of        *)
(* hundredths; a string produced by toFixed(0) is kept as a tagged value   *)
(* (a finite integer, "Infinity" or "NaN").                                *)
(***************************************************************************)
EXTENDS Integers, Sequences, FiniteSets

VARIABLES
    pc,          \* position of runBenchmarks
    i,           \* index of the for-of iterator over tests
    time,        \* const time of the current loop iteration
    opsPerSec,   \* const opsPerSec of the current loop iteration
    results,     \* const results = []
    asyncTime,   \* const asyncTime
    stdout,      \* lines written by console.log
    stderr,      \* values written by console.error
    exited,      \* the process has terminated
    exitCode,    \* process exit status
    asyncPc,     \* position of testAsyncOperations
    promises,    \* const promises: state of each sub-operation's promise
    remaining,   \* Promise.all: number of elements not yet resolved
    allState,    \* Promise.all's promise: "none", "pending", "fulfilled"
    asyncPromise,\* the promise returned by testAsyncOperations()
    microtasks,  \* the host's FIFO job queue
    calls,       \* history: call / return / throw events of the workloads
    measured,    \* history: value returned by each measured invocation
    warmRet      \* history: value returned by the latest warm-up invocation

vars == <<pc, i, time, opsPerSec, results, asyncTime, stdout, stderr, exited,
          exitCode, asyncPc, promises, remaining, allState, asyncPromise,
          microtasks, calls, measured, warmRet>>

(***************************************************************************)
(* Constants of the program and bounds of the model                        *)
(***************************************************************************)
ITERATIONS == 1000000

\* The literal 10000 of the asynchronous row's throughput.
AsyncOpCount == 10000

\* Number of sub-operations of the asynchronous batch (10000 in the source).
NumSubOps == 3

\* Durations a workload may report, in thousandths of a millisecond.
Times == {0, 1004}

(***************************************************************************)
(* Number formatting                                                       *)
(***************************************************************************)
Finite(n) == [tag |-> "finite", val |-> n]
Infinity == [tag |-> "Infinity", val |-> 0]
NaN == [tag |-> "NaN", val |-> 0]
NoNum == [tag |-> "none", val |-> 0]

\* Number.prototype.toFixed(2) of a non-negative duration: the nearest number
\* of hundredths, the larger one on a tie.
ToFixed2(t) == (t + 5) \div 10

\* parseFloat of a string produced by toFixed(2).
ParseFloat(h) == h * 10

\* (count / (t / 1000)).toFixed(0): count operations in t/1000 seconds,
\* rounded to the nearest integer, the larger one on a tie.  Division by
\* zero gives Infinity (NaN for 0 / 0), which toFixed prints as such.
\* The quotient count * 10^6 / t is computed by long division.
ToFixed0Rate(count, t) ==
    IF t = 0
    THEN (IF count = 0 THEN NaN ELSE Infinity)
    ELSE LET q1 == count \div t
             r1 == count % t
             q2 == (r1 * 1000) \div t
             r2 == (r1 * 1000) % t
             q3 == (r2 * 1000) \div t
             r3 == (r2 * 1000) % t
             floor == q1 * (1000 * 1000) + q2 * 1000 + q3
         IN  Finite(IF 2 * r3 >= t THEN floor + 1 ELSE floor)

(***************************************************************************)
(* The registry                                                            *)
(***************************************************************************)
tests ==
    << [name |-> "JSON Stringify/Parse", fn |-> "testJSONOperations",
        iterations |-> ITERATIONS],
       [name |-> "String Manipulation", fn |-> "testStringOperations",
        iterations |-> ITERATIONS \div 10],
       [name |-> "Array Operations", fn |-> "testArrayOperations",
        iterations |-> ITERATIONS \div 100],
       [name |-> "Object Creation", fn |-> "testObjectOperations",
        iterations |-> ITERATIONS],
       [name |-> "Math Operations", fn |-> "testMathOperations",
        iterations |-> ITERATIONS],
       [name |-> "RegExp Operations", fn |-> "testRegExpOperations",
        iterations |-> ITERATIONS \div 10],
       [name |-> "Function Calls", fn |-> "testFunctionCalls",
        iterations |-> ITERATIONS],
       [name |-> "Buffer/TypedArray", fn |-> "testBufferOperations",
        iterations |-> ITERATIONS \div 100],
       [name |-> "Set/Map Operations", fn |-> "testCollectionOperations",
        iterations |-> ITERATIONS \div 100] >>

NumTests == Len(tests)

AsyncLabel == "Async/Promise"

AsyncFn == "testAsyncOperations"

(***************************************************************************)
(* Output lines                                                            *)
(***************************************************************************)
Line(kind, name, t, ops) == [kind |-> kind, name |-> name, time |-> t, ops |-> ops]

Rule == Line("rule", "", 0, NoNum)
Blank == Line("blank", "", 0, NoNum)
Title == Line("title", "", 0, NoNum)
Announce == Line("announce", "", 0, NoNum)
Row(name, t, ops) == Line("row", name, t, ops)
Total(t) == Line("total", "", t, NoNum)

Event(ev, fn) == [ev |-> ev, fn |-> fn]

Job(kind, k) == [job |-> kind, k |-> k]

RECURSIVE SumTimes(_)
\* results.reduce((sum, r) => sum + parseFloat(r.time), 0).  The addends are
\* 2-decimal values, so the sum is a whole number of hundredths.
SumTimes(rs) ==
    IF rs = << >> THEN 0
    ELSE SumTimes(SubSeq(rs, 1, Len(rs) - 1)) + ParseFloat(rs[Len(rs)].time)

(***************************************************************************)
(* Points of the code that the actions share.  Each is preceded by a       *)
(* faulty variant (suffix after the underscore) that no action uses: the   *)
(* properties below are required to tell the two apart.                    *)
(***************************************************************************)
\* for (const test of tests): the iterator is exhausted after the last test.
LoopDone_OffByOne(k) == k >= NumTests

LoopDone(k) == k > NumTests

\* for (const test of tests): the iterator advances by one descriptor.
NextTest_Skip(k) == k + 2

NextTest(k) == k + 1

\* const time = test.fn(): the value of the second call; the value of the
\* first call (test.fn(); as a statement) is dropped.
TimedValue_WarmUp(warm, ret) == warm

TimedValue(warm, ret) == ret

\* (test.iterations / (time / 1000)).toFixed(0)
Throughput_Displayed(count, t) == ToFixed0Rate(count, ParseFloat(ToFixed2(t)))

Throughput(count, t) == ToFixed0Rate(count, t)

\* results.reduce((sum, r) => sum + parseFloat(r.time), 0).toFixed(2)
FooterTotal_WithAsync(rs, at) == ToFixed2(SumTimes(rs) + ParseFloat(ToFixed2(at)))

FooterTotal(rs, at) == ToFixed2(SumTimes(rs))

\* console.log of the row, inside the loop body.
PrintSyncRow_Buffered(out, line) ==
    IF i < NumTests THEN out
    ELSE out \o [k \in 1..Len(results) |->
                    Row(results[k].name, results[k].time, results[k].opsPerSec)]

PrintSyncRow(out, line) == Append(out, line)

\* Promise.all fulfils its promise when its count of unresolved elements
\* reaches zero.
AllResolved_Race(rem) == rem < NumSubOps

AllResolved(rem) == rem = 0

\* await Promise.all(promises) is reached when Array.from has called the
\* mapper for every index.
BatchReady_First(n) == n >= 1

BatchReady(n) == n = NumSubOps

\* Promise jobs run only when no synchronous code is on the stack:
\* runBenchmarks is suspended at its await or has settled, and
\* testAsyncOperations is not in the synchronous part of its body.
StackEmpty ==
    /\ pc \in {"await_async", "rejected", "caught", "resolved"}
    /\ asyncPc # "creating"

\* An exception leaving a workload is not caught inside runBenchmarks: the
\* async function's promise is rejected, and the reaction registered by
\* .catch(console.error) is queued.  q is the job queue at that point.
Raise_Swallow(q) ==
    /\ pc' = "compute"
    /\ microtasks' = q

Raise(q) ==
    /\ pc' = "rejected"
    /\ microtasks' = Append(q, Job("catch", 0))

(***************************************************************************)
(* Initial state                                                           *)
(***************************************************************************)
Init ==
    /\ pc = "start"
    /\ i = 1
    /\ time = 0
    /\ opsPerSec = NoNum
    /\ results = << >>
    /\ asyncTime = 0
    /\ stdout = << >>
    /\ stderr = << >>
    /\ exited = FALSE
    /\ exitCode = 0
    /\ asyncPc = "idle"
    /\ promises = << >>
    /\ remaining = 0
    /\ allState = "none"
    /\ asyncPromise = [state |-> "none", value |-> 0]
    /\ microtasks = << >>
    /\ calls = << >>
    /\ measured = << >>
    /\ warmRet = 0

(***************************************************************************)
(* runBenchmarks: header and the loop over tests                           *)
(***************************************************************************)
PrintHeader ==
    /\ pc = "start"
    /\ stdout' = stdout \o <<Rule, Title, Rule, Blank>>
    /\ pc' = "loop"
    /\ UNCHANGED <<i, time, opsPerSec, results, asyncTime, stderr, exited,
                   exitCode, asyncPc, promises, remaining, allState,
                   asyncPromise, microtasks, calls, measured, warmRet>>

WarmUpCall ==
    /\ pc = "loop"
    /\ ~LoopDone(i)
    /\ calls' = Append(calls, Event("call", tests[i].fn))
    /\ pc' = "warm_running"
    /\ UNCHANGED <<i, time, opsPerSec, results, asyncTime, stdout, stderr,
                   exited, exitCode, asyncPc, promises, remaining, allState,
                   asyncPromise, microtasks, measured, warmRet>>

WarmUpReturn ==
    /\ pc = "warm_running"
    /\ \E d \in Times : warmRet' = d
    /\ calls' = Append(calls, Event("return", tests[i].fn))
    /\ pc' = "measure"
    /\ UNCHANGED <<i, time, opsPerSec, results, asyncTime, stdout, stderr,
                   exited, exitCode, asyncPc, promises, remaining, allState,
                   asyncPromise, microtasks, measured>>

WarmUpThrow ==
    /\ pc = "warm_running"
    /\ calls' = Append(calls, Event("throw", tests[i].fn))
    /\ Raise(microtasks)
    /\ UNCHANGED <<i, time, opsPerSec, results, asyncTime, stdout, stderr,
                   exited, exitCode, asyncPc, promises, remaining, allState,
                   asyncPromise, measured, warmRet>>

MeasuredCall ==
    /\ pc = "measure"
    /\ calls' = Append(calls, Event("call", tests[i].fn))
    /\ pc' = "measure_running"
    /\ UNCHANGED <<i, time, opsPerSec, results, asyncTime, stdout, stderr,
                   exited, exitCode, asyncPc, promises, remaining, allState,
                   asyncPromise, microtasks, measured, warmRet>>

MeasuredReturn ==
    /\ pc = "measure_running"
    /\ \E d \in Times :
          /\ time' = TimedValue(warmRet, d)
          /\ measured' = Append(measured, d)
    /\ calls' = Append(calls, Event("return", tests[i].fn))
    /\ pc' = "compute"
    /\ UNCHANGED <<i, opsPerSec, results, asyncTime, stdout, stderr, exited,
                   exitCode, asyncPc, promises, remaining, allState,
                   asyncPromise, microtasks, warmRet>>

MeasuredThrow ==
    /\ pc = "measure_running"
    /\ calls' = Append(calls, Event("throw", tests[i].fn))
    /\ Raise(microtasks)
    /\ UNCHANGED <<i, time, opsPerSec, results, asyncTime, stdout, stderr,
                   exited, exitCode, asyncPc, promises, remaining, allState,
                   asyncPromise, measured, warmRet>>

ComputeOps ==
    /\ pc = "compute"
    /\ opsPerSec' = Throughput(tests[i].iterations, time)
    /\ pc' = "push"
    /\ UNCHANGED <<i, time, results, asyncTime, stdout, stderr, exited,
                   exitCode, asyncPc, promises, remaining, allState,
                   asyncPromise, microtasks, calls, measured, warmRet>>

PushResult ==
    /\ pc = "push"
    /\ results' = Append(results, [name |-> tests[i].name,
                                   time |-> ToFixed2(time),
                                   opsPerSec |-> opsPerSec])
    /\ pc' = "print"
    /\ UNCHANGED <<i, time, opsPerSec, asyncTime, stdout, stderr, exited,
                   exitCode, asyncPc, promises, remaining, allState,
                   asyncPromise, microtasks, calls, measured, warmRet>>

PrintRow ==
    /\ pc = "print"
    /\ stdout' = PrintSyncRow(stdout, Row(tests[i].name, ToFixed2(time), opsPerSec))
    /\ i' = NextTest(i)
    /\ pc' = "loop"
    /\ UNCHANGED <<time, opsPerSec, results, asyncTime, stderr, exited,
                   exitCode, asyncPc, promises, remaining, allState,
                   asyncPromise, microtasks, calls, measured, warmRet>>

(***************************************************************************)
(* runBenchmarks: the asynchronous test and the footer                     *)
(***************************************************************************)
AsyncBanner ==
    /\ pc = "loop"
    /\ LoopDone(i)
    /\ stdout' = stdout \o <<Blank, Announce>>
    /\ pc' = "async_call"
    /\ UNCHANGED <<i, time, opsPerSec, results, asyncTime, stderr, exited,
                   exitCode, asyncPc, promises, remaining, allState,
                   asyncPromise, microtasks, calls, measured, warmRet>>

\* await testAsyncOperations(): the call enters the function's body.
AsyncCall ==
    /\ pc = "async_call"
    /\ calls' = Append(calls, Event("call", AsyncFn))
    /\ asyncPc' = "creating"
    /\ asyncPromise' = [state |-> "pending", value |-> 0]
    /\ pc' = "await_async"
    /\ UNCHANGED <<i, time, opsPerSec, results, asyncTime, stdout, stderr,
                   exited, exitCode, promises, remaining, allState,
                   microtasks, measured, warmRet>>

\* Array.from({ length }, async (_, i) => new Promise(resolve => resolve(i * 2))):
\* one call of the mapper.  The inner promise is fulfilled in its executor;
\* the async function's own promise is resolved with it, which queues the job
\* that will adopt its state.
CreateSubOp ==
    /\ asyncPc = "creating"
    /\ ~BatchReady(Len(promises))
    /\ promises' = Append(promises, "pending")
    /\ microtasks' = Append(microtasks, Job("thenable", Len(promises) + 1))
    /\ UNCHANGED <<pc, i, time, opsPerSec, results, asyncTime, stdout, stderr,
                   exited, exitCode, asyncPc, remaining, allState,
                   asyncPromise, calls, measured, warmRet>>

\* An exception in the body of testAsyncOperations before its await: the
\* promise it returned is rejected, and the caller's await will rethrow.
AsyncThrow ==
    /\ asyncPc = "creating"
    /\ asyncPc' = "threw"
    /\ asyncPromise' = [state |-> "rejected", value |-> 0]
    /\ calls' = Append(calls, Event("throw", AsyncFn))
    /\ microtasks' = Append(microtasks, Job("throwMain", 0))
    /\ UNCHANGED <<pc, i, time, opsPerSec, results, asyncTime, stdout, stderr,
                   exited, exitCode, promises, remaining, allState, measured,
                   warmRet>>

\* await Promise.all(promises): every promise gets a reaction, the function
\* is suspended on the joined promise.
JoinAll ==
    /\ asyncPc = "creating"
    /\ BatchReady(Len(promises))
    /\ remaining' = Len(promises)
    /\ allState' = "pending"
    /\ asyncPc' = "awaiting"
    /\ UNCHANGED <<pc, i, time, opsPerSec, results, asyncTime, stdout, stderr,
                   exited, exitCode, promises, asyncPromise, microtasks,
                   calls, measured, warmRet>>

RunThenableJob ==
    /\ StackEmpty
    /\ microtasks # << >>
    /\ Head(microtasks).job = "thenable"
    /\ microtasks' = Append(Tail(microtasks), Job("resolveOuter", Head(microtasks).k))
    /\ UNCHANGED <<pc, i, time, opsPerSec, results, asyncTime, stdout, stderr,
                   exited, exitCode, asyncPc, promises, remaining, allState,
                   asyncPromise, calls, measured, warmRet>>

RunResolveOuter ==
    /\ StackEmpty
    /\ microtasks # << >>
    /\ Head(microtasks).job = "resolveOuter"
    /\ promises' = [promises EXCEPT ![Head(microtasks).k] = "fulfilled"]
    /\ microtasks' = IF allState = "pending"
                     THEN Append(Tail(microtasks), Job("allElement", Head(microtasks).k))
                     ELSE Tail(microtasks)
    /\ UNCHANGED <<pc, i, time, opsPerSec, results, asyncTime, stdout, stderr,
                   exited, exitCode, asyncPc, remaining, allState,
                   asyncPromise, calls, measured, warmRet>>

RunAllElement ==
    /\ StackEmpty
    /\ microtasks # << >>
    /\ Head(microtasks).job = "allElement"
    /\ remaining' = remaining - 1
    /\ IF allState = "pending" /\ AllResolved(remaining - 1)
       THEN /\ allState' = "fulfilled"
            /\ microtasks' = Append(Tail(microtasks), Job("resumeAsync", 0))
       ELSE /\ allState' = allState
            /\ microtasks' = Tail(microtasks)
    /\ UNCHANGED <<pc, i, time, opsPerSec, results, asyncTime, stdout, stderr,
                   exited, exitCode, asyncPc, promises, asyncPromise, calls,
                   measured, warmRet>>

\* testAsyncOperations resumes after its await and returns
\* performance.now() - start.
ResumeAsync ==
    /\ StackEmpty
    /\ microtasks # << >>
    /\ Head(microtasks).job = "resumeAsync"
    /\ \E d \in Times : asyncPromise' = [state |-> "fulfilled", value |-> d]
    /\ asyncPc' = "done"
    /\ calls' = Append(calls, Event("return", AsyncFn))
    /\ microtasks' = Append(Tail(microtasks), Job("resumeMain", 0))
    /\ UNCHANGED <<pc, i, time, opsPerSec, results, asyncTime, stdout, stderr,
                   exited, exitCode, promises, remaining, allState, measured,
                   warmRet>>

\* runBenchmarks resumes after await testAsyncOperations().
ResumeMain ==
    /\ StackEmpty
    /\ microtasks # << >>
    /\ Head(microtasks).job = "resumeMain"
    /\ asyncTime' = asyncPromise.value
    /\ pc' = "async_print"
    /\ microtasks' = Tail(microtasks)
    /\ UNCHANGED <<i, time, opsPerSec, results, stdout, stderr, exited,
                   exitCode, asyncPc, promises, remaining, allState,
                   asyncPromise, calls, measured, warmRet>>

\* runBenchmarks resumes after await on a rejected promise: the await throws.
ThrowMain ==
    /\ StackEmpty
    /\ microtasks # << >>
    /\ Head(microtasks).job = "throwMain"
    /\ Raise(Tail(microtasks))
    /\ UNCHANGED <<i, time, opsPerSec, results, asyncTime, stdout, stderr,
                   exited, exitCode, asyncPc, promises, remaining, allState,
                   asyncPromise, calls, measured, warmRet>>

AsyncPrint ==
    /\ pc = "async_print"
    /\ stdout' = Append(stdout, Row(AsyncLabel, ToFixed2(asyncTime),
                                    ToFixed0Rate(AsyncOpCount, asyncTime)))
    /\ pc' = "footer"
    /\ UNCHANGED <<i, time, opsPerSec, results, asyncTime, stderr, exited,
                   exitCode, asyncPc, promises, remaining, allState,
                   asyncPromise, microtasks, calls, measured, warmRet>>

Footer ==
    /\ pc = "footer"
    /\ stdout' = stdout \o <<Blank, Rule, Total(FooterTotal(results, asyncTime)), Rule>>
    /\ pc' = "resolved"
    /\ UNCHANGED <<i, time, opsPerSec, results, asyncTime, stderr, exited,
                   exitCode, asyncPc, promises, remaining, allState,
                   asyncPromise, microtasks, calls, measured, warmRet>>

(***************************************************************************)
(* The entry point: runBenchmarks().catch(console.error)                   *)
(***************************************************************************)
\* The rejection handler: console.error(reason).  It returns normally.
CatchHandler ==
    /\ StackEmpty
    /\ microtasks # << >>
    /\ Head(microtasks).job = "catch"
    /\ stderr' = Append(stderr, "WorkloadError")
    /\ pc' = "caught"
    /\ microtasks' = Tail(microtasks)
    /\ UNCHANGED <<i, time, opsPerSec, results, asyncTime, stdout, exited,
                   exitCode, asyncPc, promises, remaining, allState,
                   asyncPromise, calls, measured, warmRet>>

\* Nothing is left to run: the process ends with the exit status it has.
\* The program never assigns process.exitCode and never calls process.exit.
Exit ==
    /\ pc \in {"resolved", "caught"}
    /\ microtasks = << >>
    /\ ~exited
    /\ exited' = TRUE
    /\ exitCode' = exitCode
    /\ UNCHANGED <<pc, i, time, opsPerSec, results, asyncTime, stdout, stderr,
                   asyncPc, promises, remaining, allState, asyncPromise,
                   microtasks, calls, measured, warmRet>>

Next ==
    \/ PrintHeader
    \/ WarmUpCall
    \/ WarmUpReturn
    \/ WarmUpThrow
    \/ MeasuredCall
    \/ MeasuredReturn
    \/ MeasuredThrow
    \/ ComputeOps
    \/ PushResult
    \/ PrintRow
    \/ AsyncBanner
    \/ AsyncCall
    \/ CreateSubOp
    \/ AsyncThrow
    \/ JoinAll
    \/ RunThenableJob
    \/ RunResolveOuter
    \/ RunAllElement
    \/ ResumeAsync
    \/ ResumeMain
    \/ ThrowMain
    \/ AsyncPrint
    \/ Footer
    \/ CatchHandler
    \/ Exit

Spec == Init /\ [][Next]_vars

(***************************************************************************)
(* State functions used by the properties                                  *)
(***************************************************************************)
IsRow(l) == l.kind = "row"

IsSyncRow(l) == l.kind = "row" /\ l.name # AsyncLabel

Rows == SelectSeq(stdout, IsRow)

SyncRows == SelectSeq(stdout, IsSyncRow)

Failed == \E k \in 1..Len(calls) : calls[k].ev = "throw"

\* Number of invocations begun so far.
NumCalls == (Len(calls) + 1) \div 2

AsyncCalled == \E k \in 1..Len(calls) : calls[k] = Event("call", AsyncFn)

AllFulfilled ==
    /\ Len(promises) = NumSubOps
    /\ \A k \in 1..Len(promises) : promises[k] = "fulfilled"

RECURSIVE SumSeq(_)
SumSeq(s) == IF s = << >> THEN 0 ELSE s[1] + SumSeq(Tail(s))

\* n is count * 10^6 / t rounded to the nearest integer (the larger one on a
\* tie): -t <= 2 * (count * 10^6 - n * t) < t, checked by multiplying back
\* in base 10^6.
IsRounded(n, count, t) ==
    LET a == n \div 1000000
        b == n % 1000000
        c == (b * t) \div 1000000
        d == (b * t) % 1000000
        H == a * t + c
    IN  \/ (count = H /\ 2 * d <= t)
        \/ (count = H + 1 /\ 2 * (1000000 - d) < t)

(***************************************************************************)
(* C1: in a run where no workload fails, every descriptor's operation is   *)
(* invoked exactly twice and consecutively, in registry order; an          *)
(* invocation begins only after the previous one has returned; the first   *)
(* returned duration is dropped and the second is the reported elapsed     *)
(* time; nothing is invoked a third time.                                  *)
(***************************************************************************)
C1_TwoCallProtocol ==
    /\ \A k \in 1..Len(calls) :
          /\ (k % 2 = 1) => calls[k].ev = "call"
          /\ (k % 2 = 0) => /\ calls[k].ev \in {"return", "throw"}
                            /\ calls[k].fn = calls[k - 1].fn
          /\ (calls[k].ev = "throw") => k = Len(calls)
    /\ \A k \in 1..Len(calls) :
          (k % 2 = 1 /\ calls[k].fn # AsyncFn) =>
              /\ (k + 1) \div 2 <= 2 * NumTests
              /\ calls[k].fn = tests[((k + 1) \div 2 + 1) \div 2].fn
    /\ Len(measured) = Cardinality({k \in 1..Len(calls) :
                                      /\ k % 4 = 0
                                      /\ calls[k].ev = "return"
                                      /\ calls[k].fn # AsyncFn})
    /\ Len(results) <= Len(measured)
    /\ \A k \in 1..Len(results) : results[k].time = ToFixed2(measured[k])
    /\ (pc = "resolved") =>
          \A j \in 1..NumTests :
             Cardinality({k \in 1..Len(calls) :
                            calls[k] = Event("call", tests[j].fn)}) = 2

C1_Witness ==
    /\ pc = "resolved"
    /\ Len(results) = NumTests
    /\ warmRet # measured[NumTests]

(***************************************************************************)
(* C2: a completed run prints exactly NumTests + 1 result rows: the        *)
(* synchronous rows in registration order, then the asynchronous row with  *)
(* its fixed label.                                                        *)
(***************************************************************************)
C2_ReportRows ==
    /\ Len(Rows) <= NumTests + 1
    /\ \A k \in 1..Len(Rows) :
          Rows[k].name = IF k <= NumTests THEN tests[k].name ELSE AsyncLabel
    /\ (pc = "resolved") => Len(Rows) = NumTests + 1

C2_Witness ==
    /\ exited
    /\ pc = "resolved"
    /\ Len(Rows) = NumTests + 1

(***************************************************************************)
(* C3 as claimed: the printed total is the sum of the measured elapsed     *)
(* times of the synchronous results (to 2 decimals).                       *)
(***************************************************************************)
C3_TotalIsSumOfMeasured ==
    \A k \in 1..Len(stdout) :
       stdout[k].kind = "total" => stdout[k].time = ToFixed2(SumSeq(measured))

(***************************************************************************)
(* C3 as amended: the printed total is the sum of the 2-decimal elapsed    *)
(* times shown in the synchronous rows (each rounded before it is added),  *)
(* whatever the asynchronous row's elapsed time.                           *)
(***************************************************************************)
C3_TotalIsSumOfDisplayed ==
    \A k \in 1..Len(stdout) :
       stdout[k].kind = "total" =>
          stdout[k].time = SumSeq([j \in 1..Len(SyncRows) |-> SyncRows[j].time])

C3_Witness ==
    /\ pc = "resolved"
    /\ asyncTime > 0
    /\ Len(SyncRows) = NumTests
    /\ SumSeq([j \in 1..Len(SyncRows) |-> SyncRows[j].time]) # ToFixed2(SumSeq(measured))

(***************************************************************************)
(* C4: when a workload invocation fails the run aborts at once: no later   *)
(* workload is invoked, the failing workload gets no row and no result,    *)
(* the footer total is never printed, and the rows printed are exactly     *)
(* those of the descriptors that completed before the failure.             *)
(***************************************************************************)
C4_FailureAborts ==
    Failed =>
       /\ calls[Len(calls)].ev = "throw"
       /\ \A k \in 1..Len(stdout) : stdout[k].kind # "total"
       /\ Len(Rows) = Len(measured)
       /\ Len(results) = Len(measured)
       /\ Len(measured) = IF calls[Len(calls)].fn = AsyncFn
                          THEN NumTests
                          ELSE (NumCalls + 1) \div 2 - 1
       /\ \A k \in 1..Len(Rows) :
             /\ k <= NumTests
             /\ Rows[k].name = tests[k].name
             /\ Rows[k].time = ToFixed2(measured[k])

C4_Witness ==
    /\ exited
    /\ Failed
    /\ calls[Len(calls)].fn = tests[3].fn
    /\ Len(Rows) = 2

(***************************************************************************)
(* C5: when the run fails the failure is written to the error stream and   *)
(* the process ends with a non-zero status; status zero only if every      *)
(* workload completed.                                                     *)
(***************************************************************************)
C5_FailureExitsNonZero ==
    exited =>
       /\ Failed => (stderr # << >> /\ exitCode # 0)
       /\ (exitCode = 0) => ~Failed

(***************************************************************************)
(* C6: a descriptor with a zero or negative operation count is rejected    *)
(* before any workload runs, and no report row ever carries Infinity or    *)
(* NaN as its throughput.                                                  *)
(***************************************************************************)
C6_NoInfinityOrNaN ==
    /\ (\E j \in 1..NumTests : tests[j].iterations <= 0) => calls = << >>
    /\ \A k \in 1..Len(SyncRows) : SyncRows[k].ops.tag = "finite"

(***************************************************************************)
(* C7: for a measured elapsed time E > 0 the reported throughput of a      *)
(* descriptor is its own operation count divided by E / 1000, rounded to   *)
(* the nearest integer, from the unrounded E.                              *)
(***************************************************************************)
C7_ThroughputExact ==
    /\ \A k \in 1..Len(SyncRows) :
          measured[k] > 0 =>
             /\ SyncRows[k].ops.tag = "finite"
             /\ IsRounded(SyncRows[k].ops.val, tests[k].iterations, measured[k])
    /\ \A k \in 1..Len(results) :
          measured[k] > 0 =>
             /\ results[k].opsPerSec.tag = "finite"
             /\ IsRounded(results[k].opsPerSec.val, tests[k].iterations, measured[k])

C7_Witness ==
    \E k \in 1..Len(SyncRows) :
       /\ measured[k] > 0
       /\ ParseFloat(ToFixed2(measured[k])) # measured[k]
       /\ SyncRows[k].ops # ToFixed0Rate(tests[k].iterations, ParseFloat(SyncRows[k].time))

(***************************************************************************)
(* C8: in the asynchronous workload every sub-operation is initiated       *)
(* before the workload waits, and the joined batch, the end timestamp and  *)
(* the result come only after every sub-operation has completed.           *)
(***************************************************************************)
C8_JoinedBatch ==
    /\ (asyncPc = "creating") =>
          \A k \in 1..Len(promises) : promises[k] = "pending"
    /\ (asyncPc = "awaiting") => Len(promises) = NumSubOps
    /\ (allState # "none") => Len(promises) = NumSubOps
    /\ (allState = "fulfilled") => AllFulfilled
    /\ (asyncPc = "done") => AllFulfilled
    /\ (asyncPromise.state = "fulfilled") => AllFulfilled

C8_Witness ==
    /\ asyncPc = "done"
    /\ allState = "fulfilled"
    /\ AllFulfilled

(***************************************************************************)
(* C9: the asynchronous workload is invoked once, without a warm-up, only  *)
(* after the last synchronous descriptor's measured invocation has         *)
(* returned and its row is printed; while its batch is outstanding no      *)
(* synchronous workload runs.                                              *)
(***************************************************************************)
C9_AsyncOnceAfterSync ==
    /\ \A k \in 1..Len(calls) :
          (calls[k].fn = AsyncFn) => k \in {4 * NumTests + 1, 4 * NumTests + 2}
    /\ AsyncCalled =>
          /\ Len(measured) = NumTests
          /\ Len(SyncRows) = NumTests
          /\ \A k \in 1..NumTests : SyncRows[k].name = tests[k].name
    /\ (asyncPromise.state = "pending") =>
          /\ pc = "await_async"
          /\ calls[Len(calls)] = Event("call", AsyncFn)
    /\ (pc = "resolved") => AsyncCalled

C9_Witness ==
    /\ asyncPromise.state = "pending"
    /\ allState = "pending"
    /\ microtasks # << >>

(***************************************************************************)
(* C10 as claimed: at every point of the run the number of printed         *)
(* synchronous rows equals the number of descriptors whose measured        *)
(* invocation has completed.                                                *)
(***************************************************************************)
C10_RowsEqualCompletedAlways == Len(SyncRows) = Len(measured)

(***************************************************************************)
(* C10 as amended: the header is printed before the first invocation; the  *)
(* row of a descriptor is printed after its measured invocation returns    *)
(* and before the next warm-up begins; the number of printed synchronous   *)
(* rows equals the number of completed measured invocations at every point *)
(* except between a measured invocation's return and the printing of its   *)
(* row, where it is one less and no workload is invoked.                   *)
(***************************************************************************)
C10_StreamedOutput ==
    /\ (calls # << >>) =>
          /\ Len(stdout) >= 4
          /\ SubSeq(stdout, 1, 4) = <<Rule, Title, Rule, Blank>>
    /\ (pc \notin {"compute", "push", "print"}) => Len(SyncRows) = Len(measured)
    /\ (pc \in {"compute", "push", "print"}) =>
          /\ Len(SyncRows) + 1 = Len(measured)
          /\ calls[Len(calls)].ev = "return"
    /\ \A k \in 1..Len(SyncRows) : SyncRows[k].time = ToFixed2(measured[k])
    /\ (pc \in {"warm_running", "measure", "measure_running"}) =>
          /\ Len(SyncRows) = (NumCalls + 1) \div 2 - 1
          /\ Len(SyncRows) = i - 1

C10_Witness ==
    /\ pc = "warm_running"
    /\ i = 3
    /\ Len(SyncRows) = 2

====
